---- MODULE Spec2Model ----
(***************************************************************************)
(* Model of the polymarket-arbitrage-bot core: the ArbitrageDetector       *)
(* (services/ArbitrageDetector.ts), the TradeExecutor                      *)
(* (services/TradeExecutor.ts), the RiskManager                            *)
(* (services/RiskManager.ts), the MarketStateTracker                       *)
(* (services/MarketStateTracker.ts) and the MarketMonitor                  *)
(* (services/MarketMonitor.ts) with its MonitoringStats.                   *)
(*                                                                         *)
(* Numbers.  The program computes with IEEE doubles.  The model computes   *)
(* with exact rationals [n, d] (d = 0 encodes the doubles +Infinity, n > 0,*)
(* -Infinity, n < 0, and NaN, n = 0, that a division by zero produces), so *)
(* rounding error is not modelled; the non-finite values are.              *)
(* Time.  Date.now() is the variable now, in seconds (the source's         *)
(* millisecond constants are divided by 1000).                             *)
(* Strings.  A joined outcome string is a sequence of tokens in which the  *)
(* token "+" stands for the separator ' + '; outcome labels are assumed    *)
(* not to contain a plus sign themselves.                                  *)
(***************************************************************************)
EXTENDS Integers, Sequences, FiniteSets, Bags, TLC

VARIABLES
    now,                  \* Date.now(), seconds
    \* ---- ArbitrageDetector
    recentOpportunities,  \* Map<id, opportunity>, as the set of its values
    nextOppId,            \* source of fresh uuidv4() opportunity ids
    detectCalls,          \* number of detectOpportunities calls so far
    lastQuotes,           \* argument of the latest detectOpportunities call
    lastResult,           \* its return value
    lastCallAt,           \* its Date.now()
    lastRecentBefore,     \* recentOpportunities when it was called
    repeatedQuotes,       \* the latest call had the argument of the call before it
    prevCallAt,           \* its Date.now()
    \* ---- TradeExecutor
    tradingEnabled,       \* config.trading.enabled
    tradeHeap,            \* every Trade object created, indexed by id
    pendingTrades,        \* ids, in array order
    completedTrades,      \* ids, in array order
    retryCount,           \* Map<id, number>, 0 when absent
    submitCount,          \* per trade id: calls of executeIndividualTrade
    calls,                \* the executeTrade invocations (async frames)
    lastCancel,           \* latest cancelTrade call: result, status before
    \* ---- RiskManager
    positions,            \* Map<key, Position>
    totalExposure,        \* RiskManager.totalExposure
    fillCount,            \* number of updatePosition calls so far
    lastCheck,            \* latest canExecuteTrade call: arguments, result
    fillLog,              \* per position key: the fills passed to updatePosition
    approvals,            \* the caller's approved fills not yet recorded
    \* ---- MarketStateTracker
    states,               \* Map<marketId, MarketState>
    arrivals,             \* per tracked market: the quote sets passed to
                          \* updateMarket since its state was created
    updateCalls,          \* number of updateMarket calls so far
    \* ---- MarketMonitor and its MonitoringStats
    marketCache,          \* MarketMonitor.markets: Map<id, Market>, as its key set
    priceCache,           \* MarketMonitor.prices: Map<id, MarketPrice[]>
    isRunning,            \* MarketMonitor.isRunning
    pollInterval,         \* MarketMonitor.pollInterval: a timer id, 0 for null
    timers,               \* the polling intervals that are set and not cleared
    tick,                 \* the fetchAndUpdateMarkets invocations (async frames)
    ticksBegun,           \* number of fetchAndUpdateMarkets invocations so far
    totalErrors,          \* MonitoringStats.totalErrors
    totalPriceUpdates,    \* MonitoringStats.totalPriceUpdates
    emitted,              \* number of events emitted, per type (and market)
    lastFetch,            \* latest API fetch: serial number, kind, outcome
    stopReturned          \* stop() has returned and start() was not called since

detVars  == <<recentOpportunities, nextOppId, detectCalls, lastQuotes,
              lastResult, lastCallAt, lastRecentBefore, repeatedQuotes, prevCallAt>>
execVars == <<tradeHeap, pendingTrades, completedTrades, retryCount,
              submitCount, calls, lastCancel>>
riskVars == <<positions, totalExposure, fillCount, lastCheck, fillLog, approvals>>
trackVars == <<states, arrivals, updateCalls>>
monOnlyVars == <<marketCache, priceCache, isRunning, pollInterval, timers, tick,
                 ticksBegun, totalErrors, totalPriceUpdates, emitted, lastFetch,
                 stopReturned>>
monVars  == <<trackVars, monOnlyVars>>
vars     == <<now, detVars, tradingEnabled, execVars, riskVars, monVars>>

----------------------------------------------------------------------------
(* Bounds of the model *)

MaxDetectCalls == 2     \* detectOpportunities calls explored per behaviour
MaxTime        == 61    \* the clock stops advancing here
MaxTrades      == 4     \* Trade objects created per behaviour
MaxSeqTrades   == 12    \* the same, in the sequential specification
MaxCancels     == 1     \* cancelTrade calls per behaviour
MaxFills       == 1     \* updatePosition calls per behaviour
MaxRiskCalls   == 3     \* the same, for the ledger alone
MaxApprovedFills == 11  \* approvals requested per behaviour, approved ledger
MaxUpdates     == 102   \* updateMarket calls per behaviour, tracker alone
MaxTicks       == 3     \* fetchAndUpdateMarkets invocations per behaviour

----------------------------------------------------------------------------
(* Exact rationals standing for the program's doubles *)

Sign(x) == IF x > 0 THEN 1 ELSE IF x < 0 THEN -1 ELSE 0
Abs(x)  == IF x < 0 THEN -x ELSE x

RECURSIVE GCD(_, _)
GCD(a, b) == IF b = 0 THEN a ELSE GCD(b, a % b)

Rat(n, d) ==
    IF d = 0 THEN [n |-> Sign(n), d |-> 0]
    ELSE LET g == GCD(Abs(n), Abs(d))
             s == Sign(d)
         IN  [n |-> (s * n) \div g, d |-> (s * d) \div g]

Zero == Rat(0, 1)
One  == Rat(1, 1)

IsNaN(a)    == a.d = 0 /\ a.n = 0
IsFinite(a) == a.d # 0

\* Infinity + Infinity is Infinity, Infinity - Infinity is NaN
RAdd(a, b) == IF a.d = 0 /\ b.d = 0
              THEN (IF a.n = b.n THEN a ELSE [n |-> 0, d |-> 0])
              ELSE LET g == IF a.d = 0 \/ b.d = 0 THEN 1 ELSE GCD(a.d, b.d)
                   IN  Rat(a.n * (b.d \div g) + b.n * (a.d \div g), (a.d \div g) * b.d)
RNeg(a)    == [n |-> -a.n, d |-> a.d]
RSub(a, b) == RAdd(a, RNeg(b))
RMul(a, b) == Rat(a.n * b.n, a.d * b.d)
\* a / b is a * (1 / b), and 1 / b keeps the sign of b
RDiv(a, b) == RMul(a, Rat(b.d, b.n))
RAbs(a)    == [n |-> Abs(a.n), d |-> a.d]
\* comparisons are false as soon as one side is NaN, as for doubles
RLt(a, b)  == /\ ~IsNaN(a) /\ ~IsNaN(b)
              /\ IF a.d = 0 /\ b.d = 0 THEN a.n < b.n ELSE a.n * b.d < b.n * a.d
RLe(a, b)  == /\ ~IsNaN(a) /\ ~IsNaN(b)
              /\ IF a.d = 0 /\ b.d = 0 THEN a.n <= b.n ELSE a.n * b.d <= b.n * a.d
RMax(a, b) == IF RLt(a, b) THEN b ELSE a
RMin(a, b) == IF RLt(b, a) THEN b ELSE a

RECURSIVE RSum(_)
RSum(s) == IF s = <<>> THEN Zero ELSE RAdd(RSum(SubSeq(s, 1, Len(s) - 1)), s[Len(s)])

----------------------------------------------------------------------------
(* Configuration (config.trading, config.risk) and class constants *)

minProfitThreshold == Rat(2, 100)
maxPositionSize    == Rat(100, 1)
maxTotalExposure   == Rat(1000, 1)
maxSlippage        == Rat(1, 100)
minConfidence      == Rat(6, 10)
opportunityTTL     == 60
dupTolerance       == Rat(1, 1000)
maxPendingTrades   == 10
maxRetries         == 3

ArbComplementary == "complementary"
ArbMispricing    == "mispricing"
ArbTemporal      == "temporal"
NA            == <<"N/A">>

(* prices.map((p) => p.outcome).join(' + ') *)
RECURSIVE JoinPlus(_)
JoinPlus(labels) ==
    IF Len(labels) <= 1 THEN labels
    ELSE JoinPlus(SubSeq(labels, 1, Len(labels) - 1)) \o <<"+", labels[Len(labels)]>>

(* s.includes('+') ? s.split(' + ') : [s] *)
RECURSIVE SplitPlus(_)
SplitPlus(str) ==
    IF \A i \in 1..Len(str) : str[i] # "+" THEN <<str>>
    ELSE LET k == CHOOSE i \in 1..Len(str) :
                     str[i] = "+" /\ \A j \in 1..(i - 1) : str[j] # "+"
         IN  <<SubSeq(str, 1, k - 1)>> \o SplitPlus(SubSeq(str, k + 1, Len(str)))

(* `All ${prices.length} outcomes` *)
AllOutcomes(n) == <<"All", ToString(n), "outcomes">>

----------------------------------------------------------------------------
(* ArbitrageDetector: the strategies, as pure functions of the quotes.     *)
(* A quote is [marketId, outcome, bidPrice, askPrice, lastPrice].          *)

AskPrices(prices) == [i \in 1..Len(prices) |-> prices[i].askPrice]
BidPrices(prices) == [i \in 1..Len(prices) |-> prices[i].bidPrice]
Spreads(prices)   == [i \in 1..Len(prices) |-> RSub(prices[i].askPrice, prices[i].bidPrice)]
Outcomes(prices)  == [i \in 1..Len(prices) |-> prices[i].outcome]

AvgSpread(prices) == RDiv(RSum(Spreads(prices)), Rat(Len(prices), 1))

(* variant: the confidence does not depend on the spread *)
calculateConfidence_NoSpread(avgSpread, prices) ==
    RMin(One, RMax(Rat(8, 10), RSub(One, RMul(Rat(Len(prices) - 2, 1), Rat(1, 10)))))

calculateConfidence(avgSpread, prices) ==
    LET spreadFactor   == RMax(Rat(1, 2), RSub(One, RMul(avgSpread, Rat(5, 1))))
        outcomesFactor == RMax(Rat(8, 10),
                               RSub(One, RMul(Rat(Len(prices) - 2, 1), Rat(1, 10))))
    IN  RMin(One, RMul(spreadFactor, outcomesFactor))

calculateRiskScore(requiredCapital, avgSpread, prices) ==
    LET capitalRisk == RMin(One, RDiv(requiredCapital, maxPositionSize))
        spreadRisk  == RMin(One, RMul(avgSpread, Rat(10, 1)))
        overallRisk == RDiv(RAdd(capitalRisk, spreadRisk), Rat(2, 1))
    IN  RMax(Zero, RMin(One, overallRisk))

(* detectComplementaryArbitrage: a sequence holding the opportunity, or    *)
(* the empty sequence for null.  id is the uuid the opportunity gets.      *)
detectComplementaryArbitrage(marketId, prices, id, t) ==
    LET totalCost == RSum(AskPrices(prices))
        profit    == RSub(One, totalCost)
        avgSpread == AvgSpread(prices)
        opp == [id |-> id, marketId |-> marketId, type |-> ArbComplementary,
                buyOutcome |-> IF Len(prices) = 2 THEN JoinPlus(Outcomes(prices))
                                                  ELSE AllOutcomes(Len(prices)),
                sellOutcome |-> NA,
                buyPrice |-> totalCost, sellPrice |-> One,
                expectedProfit |-> profit,
                profitPercentage |-> RDiv(profit, totalCost),
                confidence |-> calculateConfidence(avgSpread, prices),
                timestamp |-> t, expiresAt |-> t + 30,
                requiredCapital |-> totalCost,
                estimatedSlippage |-> RDiv(avgSpread, Rat(2, 1)),
                riskScore |-> calculateRiskScore(totalCost, avgSpread, prices)]
    IN  IF Len(prices) >= 2 /\ RLt(totalCost, One) THEN <<opp>> ELSE <<>>

MispricingOpportunity(marketId, price, id, t) ==
    LET profit == RSub(price.bidPrice, price.askPrice)
    IN  [id |-> id, marketId |-> marketId, type |-> ArbMispricing,
         buyOutcome |-> <<price.outcome>>, sellOutcome |-> <<price.outcome>>,
         buyPrice |-> price.askPrice, sellPrice |-> price.bidPrice,
         expectedProfit |-> profit,
         profitPercentage |-> RDiv(profit, price.askPrice),
         confidence |-> Rat(9, 10),
         timestamp |-> t, expiresAt |-> t + 10,
         requiredCapital |-> price.askPrice,
         estimatedSlippage |-> Rat(1, 1000),
         riskScore |-> Rat(1, 10)]

(* detectMispricing: one opportunity per quote with bid > ask, in quote    *)
(* order, with consecutive fresh ids starting at id.                       *)
RECURSIVE detectMispricing(_, _, _, _)
detectMispricing(marketId, prices, id, t) ==
    IF prices = <<>> THEN <<>>
    ELSE LET price == prices[1]
             rest  == SubSeq(prices, 2, Len(prices))
         IN  IF RLt(price.askPrice, price.bidPrice)
             THEN <<MispricingOpportunity(marketId, price, id, t)>>
                  \o detectMispricing(marketId, rest, id + 1, t)
             ELSE detectMispricing(marketId, rest, id, t)

detectTemporalArbitrage(marketId, prices, id, t) ==
    LET totalBidPrice == RSum(BidPrices(prices))
        profit    == RSub(totalBidPrice, One)
        avgSpread == AvgSpread(prices)
        opp == [id |-> id, marketId |-> marketId, type |-> ArbTemporal,
                buyOutcome |-> NA,
                sellOutcome |-> JoinPlus(Outcomes(prices)),
                buyPrice |-> One, sellPrice |-> totalBidPrice,
                expectedProfit |-> profit,
                profitPercentage |-> RDiv(profit, One),
                confidence |-> RMax(Rat(3, 10),
                                    RMul(calculateConfidence(avgSpread, prices), Rat(6, 10))),
                timestamp |-> t, expiresAt |-> t + 60,
                requiredCapital |-> One,
                estimatedSlippage |-> RMul(avgSpread, Rat(15, 10)),
                riskScore |-> Rat(7, 10)]
    IN  IF Len(prices) = 2 /\ RLt(One, totalBidPrice) THEN <<opp>> ELSE <<>>

isDuplicate(opportunity, recent) ==
    \E r \in recent :
        /\ r.marketId = opportunity.marketId
        /\ r.type = opportunity.type
        /\ RLt(RAbs(RSub(r.profitPercentage, opportunity.profitPercentage)), dupTolerance)

cleanupOldOpportunities(recent, t) ==
    {o \in recent : ~(t - o.timestamp > opportunityTTL)}

(* variant: the filter callback without its profit-threshold test *)
PassesFilter_NoProfitTest(opp, recent) ==
    /\ ~RLt(opp.confidence, minConfidence)
    /\ ~RLt(maxSlippage, opp.estimatedSlippage)
    /\ ~isDuplicate(opp, recent)

(* variant: the filter callback without its confidence test *)
PassesFilter_NoConfidenceTest(opp, recent) ==
    /\ ~RLt(opp.profitPercentage, minProfitThreshold)
    /\ ~RLt(maxSlippage, opp.estimatedSlippage)
    /\ ~isDuplicate(opp, recent)

(* the filter callback of detectOpportunities *)
PassesFilter(opp, recent) ==
    /\ ~RLt(opp.profitPercentage, minProfitThreshold)
    /\ ~RLt(opp.confidence, minConfidence)
    /\ ~RLt(maxSlippage, opp.estimatedSlippage)
    /\ ~isDuplicate(opp, recent)

RECURSIVE FilterSeq(_, _)
FilterSeq(opps, recent) ==
    IF opps = <<>> THEN <<>>
    ELSE LET rest == FilterSeq(SubSeq(opps, 2, Len(opps)), recent)
         IN  IF PassesFilter(opps[1], recent) THEN <<opps[1]>> \o rest ELSE rest

(* Array.prototype.sort((a, b) => b.profitPercentage - a.profitPercentage):*)
(* stable, descending; a NaN difference counts as equal.                   *)
RECURSIVE InsertSorted(_, _)
InsertSorted(x, sorted) ==
    IF sorted = <<>> THEN <<x>>
    ELSE IF RLt(sorted[1].profitPercentage, x.profitPercentage)
         THEN <<x>> \o sorted
         ELSE <<sorted[1]>> \o InsertSorted(x, SubSeq(sorted, 2, Len(sorted)))

RECURSIVE SortByProfit(_)
SortByProfit(opps) ==
    IF opps = <<>> THEN <<>>
    ELSE InsertSorted(opps[Len(opps)], SortByProfit(SubSeq(opps, 1, Len(opps) - 1)))

Range(s) == {s[i] : i \in 1..Len(s)}

(* the candidates of one call, in the order the strategies push them *)
Candidates(prices, id, t) ==
    LET marketId == prices[1].marketId
        comp == detectComplementaryArbitrage(marketId, prices, id, t)
        mis  == detectMispricing(marketId, prices, id + Len(comp), t)
        temp == detectTemporalArbitrage(marketId, prices, id + Len(comp) + Len(mis), t)
    IN  comp \o mis \o temp

(* detectOpportunities: the returned list, the map afterwards and the      *)
(* number of uuids drawn.                                                  *)
detectOpportunities(prices, recent, id, t) ==
    IF Len(prices) = 0
    THEN [valid |-> <<>>, recent |-> recent, drawn |-> 0]
    ELSE LET cands == Candidates(prices, id, t)
             valid == SortByProfit(FilterSeq(cands, recent))
         IN  [valid  |-> valid,
              recent |-> cleanupOldOpportunities(recent \cup Range(valid), t),
              drawn  |-> Len(cands)]

----------------------------------------------------------------------------
(* Inputs *)

Quote(marketId, outcome, bidMills, askMills) ==
    [marketId |-> marketId, outcome |-> outcome,
     bidPrice |-> Rat(bidMills, 1000), askPrice |-> Rat(askMills, 1000),
     lastPrice |-> Rat(bidMills, 1000)]

(* bid/ask pairs, in thousandths: a normal book around .48 and around .51, *)
(* a tight book above .50, an inverted book, a barely inverted book, and   *)
(* the empty ask book that PolymarketAPI.getMarketPrices reports as ask 0. *)
BidAskPairs == <<<<470, 480>>, <<500, 510>>, <<520, 525>>,
                 <<550, 500>>, <<505, 500>>, <<500, 0>>>>

QuoteSets ==
    {<<>>}
    \cup {<<Quote("m1", "Yes", BidAskPairs[i][1], BidAskPairs[i][2])>> : i \in {1, 4, 6}}
    \cup UNION {{<<Quote("m1", "Yes", BidAskPairs[i][1], BidAskPairs[i][2]),
                    Quote("m1", "No", BidAskPairs[j][1], BidAskPairs[j][2])>> :
                      j \in i..Len(BidAskPairs)} : i \in 1..Len(BidAskPairs)}
    \cup {<<Quote("m1", "A", 300, 310), Quote("m1", "B", 300, 310),
            Quote("m1", "C", 300, 310)>>}
    \cup {<<Quote("m2", "Yes", 550, 500), Quote("m2", "No", 500, 510)>>,
          <<Quote("m2", "Yes", 470, 480), Quote("m2", "No", 470, 480)>>}

TickSteps == {30, 61}
ExecTickSteps == {61}

(* the opportunities handed to executeTrade: what the strategies produce   *)
(* at time 0 for a binary market, an inverted book and a 3-outcome market  *)
ExecQuoteSets ==
    {<<Quote("m1", "Yes", 470, 480), Quote("m1", "No", 470, 480)>>,
     <<Quote("m1", "Yes", 550, 500), Quote("m1", "No", 500, 500)>>,
     <<Quote("m1", "A", 300, 310), Quote("m1", "B", 300, 310),
       Quote("m1", "C", 300, 310)>>}

ExecOpportunities == UNION {Range(Candidates(q, 1, 0)) : q \in ExecQuoteSets}

(* two executeTrade invocations may be in flight at once *)
Callers == {1, 2}

----------------------------------------------------------------------------
(* Initial state: the three services right after construction *)

IdleCall == [pc |-> "idle", opp |-> <<>>, startedAt |-> 0, trades |-> <<>>, idx |-> 0,
             executedTrades |-> <<>>, ret |-> <<>>]

EmptyMap == [x \in {} |-> 0]

InitDetector ==
    /\ recentOpportunities = {}
    /\ nextOppId = 1
    /\ detectCalls = 0
    /\ lastQuotes = <<>>
    /\ lastResult = <<>>
    /\ lastCallAt = 0
    /\ lastRecentBefore = {}
    /\ repeatedQuotes = FALSE
    /\ prevCallAt = 0

InitExecutor ==
    /\ tradeHeap = <<>>
    /\ pendingTrades = <<>>
    /\ completedTrades = <<>>
    /\ retryCount = EmptyMap
    /\ submitCount = EmptyMap
    /\ calls = [c \in Callers |-> IdleCall]
    /\ lastCancel = [count |-> 0, result |-> FALSE, statusBefore |-> "none"]

InitRisk ==
    /\ positions = EmptyMap
    /\ totalExposure = Zero
    /\ fillCount = 0
    /\ lastCheck = [called |-> FALSE, amount |-> Zero, profitPercentage |-> Zero,
                    exposure |-> Zero, result |-> FALSE]
    /\ fillLog = EmptyMap
    /\ approvals = EmptyBag

InitTracker ==
    /\ states = EmptyMap
    /\ arrivals = EmptyMap
    /\ updateCalls = 0

MarketIds == {"m1", "m2"}

(* two fetchAndUpdateMarkets invocations may be in flight at once: a slow  *)
(* one and the one the next firing of the polling interval begins          *)
TickSlots == {1, 2}

IdleTick == [pc |-> "idle", owner |-> "none", no |-> 0, list |-> <<>>, idx |-> 0]

InitMonitor ==
    /\ InitTracker
    /\ marketCache = {}
    /\ priceCache = EmptyMap
    /\ isRunning = FALSE
    /\ pollInterval = 0
    /\ timers = {}
    /\ tick = [s \in TickSlots |-> IdleTick]
    /\ ticksBegun = 0
    /\ totalErrors = 0
    /\ totalPriceUpdates = 0
    /\ emitted = [added |-> 0, removed |-> 0, error |-> 0,
                  addedFor |-> [m \in MarketIds |-> 0],
                  removedFor |-> [m \in MarketIds |-> 0],
                  priceUpdated |-> [m \in MarketIds |-> 0]]
    /\ lastFetch = [n |-> 0, kind |-> "none", failed |-> FALSE, marketId |-> "none",
                    slot |-> 0]
    /\ stopReturned = FALSE

(* TRADING_ENABLED defaults to false (dry run) *)
Init ==
    /\ now = 0
    /\ tradingEnabled = FALSE
    /\ InitDetector
    /\ InitExecutor
    /\ InitRisk
    /\ InitMonitor

(* the same, for either value of TRADING_ENABLED *)
InitAnyMode ==
    /\ now = 0
    /\ tradingEnabled \in BOOLEAN
    /\ InitDetector
    /\ InitExecutor
    /\ InitRisk
    /\ InitMonitor

----------------------------------------------------------------------------
(* The clock *)

Tick(dt) ==
    /\ now + dt <= MaxTime
    /\ now' = now + dt
    /\ UNCHANGED <<detVars, tradingEnabled, execVars, riskVars, monVars>>

----------------------------------------------------------------------------
(* ArbitrageDetector.detectOpportunities(prices) *)

(* one detectOpportunities call: the detector's fields and the record of   *)
(* the call, whoever makes it                                              *)
DetectorCall(prices) ==
    /\ detectCalls < MaxDetectCalls
    /\ \E r \in {detectOpportunities(prices, recentOpportunities, nextOppId, now)} :
           /\ recentOpportunities' = r.recent
           /\ nextOppId' = nextOppId + r.drawn
           /\ lastResult' = r.valid
    /\ detectCalls' = detectCalls + 1
    /\ lastQuotes' = prices
    /\ lastCallAt' = now
    /\ lastRecentBefore' = recentOpportunities
    /\ repeatedQuotes' = (detectCalls > 0 /\ prices = lastQuotes)
    /\ prevCallAt' = lastCallAt

DetectOpportunities(prices) ==
    /\ DetectorCall(prices)
    /\ UNCHANGED <<now, tradingEnabled, execVars, riskVars, monVars>>

Detect == \E prices \in QuoteSets : DetectOpportunities(prices)

DetectorTick == \E dt \in TickSteps : Tick(dt)

NextDetector == DetectorTick \/ Detect

SpecDetector == Init /\ [][NextDetector]_vars

----------------------------------------------------------------------------
(* RiskManager *)

KeyOf(marketId, outcome) == <<marketId, "-">> \o outcome

RECURSIVE ExposureOf(_, _)
ExposureOf(pos, keys) ==
    IF keys = {} THEN Zero
    ELSE LET k == CHOOSE x \in keys : TRUE
         IN  RAdd(ExposureOf(pos, keys \ {k}), RMul(pos[k].quantity, pos[k].averagePrice))

(* variant: the position takes the price of the latest fill *)
updatePosition_LatestPrice(pos, marketId, outcome, quantity, price) ==
    LET key == KeyOf(marketId, outcome)
    IN  IF key \in DOMAIN pos
        THEN [pos EXCEPT ![key].quantity = RAdd(pos[key].quantity, quantity),
                         ![key].averagePrice = price]
        ELSE (key :> [marketId |-> marketId, outcome |-> outcome,
                      quantity |-> quantity, averagePrice |-> price,
                      currentPrice |-> price, unrealizedPnL |-> Zero,
                      realizedPnL |-> Zero]) @@ pos

(* variant: the total is not recomputed after a position has changed *)
updateTotalExposure_Stale(pos) == totalExposure

updateTotalExposure(pos) == ExposureOf(pos, DOMAIN pos)

canExecuteTrade(opportunity, amount, exposure) ==
    /\ ~RLt(maxPositionSize, amount)
    /\ ~RLt(maxTotalExposure, RAdd(exposure, amount))
    /\ ~RLt(opportunity.profitPercentage, minProfitThreshold)

calculatePositionSize(opportunity) == RMin(maxPositionSize, Rat(10, 1))

updatePosition(pos, marketId, outcome, quantity, price) ==
    LET key == KeyOf(marketId, outcome)
    IN  IF key \in DOMAIN pos
        THEN LET existing      == pos[key]
                 totalQuantity == RAdd(existing.quantity, quantity)
                 averagePrice  == RDiv(RAdd(RMul(existing.averagePrice, existing.quantity),
                                            RMul(price, quantity)),
                                       totalQuantity)
             IN  [pos EXCEPT ![key].quantity = totalQuantity,
                             ![key].averagePrice = averagePrice]
        ELSE (key :> [marketId |-> marketId, outcome |-> outcome,
                      quantity |-> quantity, averagePrice |-> price,
                      currentPrice |-> price, unrealizedPnL |-> Zero,
                      realizedPnL |-> Zero]) @@ pos

FillInputs == {[marketId |-> "m1", outcome |-> <<"Yes">>,
                quantity |-> Rat(10, 1), price |-> Rat(1, 2)]}

LogFill(log, f) ==
    LET key == KeyOf(f.marketId, f.outcome)
        entry == [quantity |-> f.quantity, price |-> f.price]
    IN  (key :> (IF key \in DOMAIN log THEN Append(log[key], entry) ELSE <<entry>>)) @@ log

(* one updatePosition call, its arguments logged *)
RecordFill(f, maxCalls) ==
    /\ fillCount < maxCalls
    /\ positions' = updatePosition(positions, f.marketId, f.outcome, f.quantity, f.price)
    /\ totalExposure' = updateTotalExposure(positions')
    /\ fillCount' = fillCount + 1
    /\ fillLog' = LogFill(fillLog, f)
    /\ UNCHANGED <<now, detVars, tradingEnabled, execVars, monVars, lastCheck>>

UpdatePositionUpTo(f, maxCalls) == RecordFill(f, maxCalls) /\ UNCHANGED approvals

UpdatePosition(f) == UpdatePositionUpTo(f, MaxFills)

Fill == \E f \in FillInputs : UpdatePosition(f)

(* canExecuteTrade(opportunity, amount), its result recorded *)
CanExecuteTrade(opportunity, amount) ==
    /\ lastCheck' = [called |-> TRUE, amount |-> amount,
                     profitPercentage |-> opportunity.profitPercentage,
                     exposure |-> totalExposure,
                     result |-> canExecuteTrade(opportunity, amount, totalExposure)]
    /\ UNCHANGED <<now, detVars, tradingEnabled, execVars, monVars,
                   positions, totalExposure, fillCount, fillLog, approvals>>

(* the ledger alone: buys, sells (negative quantity) and a buy that takes  *)
(* the exposure close to maxTotalExposure, of two outcomes of a market     *)
RiskInputs ==
    {[marketId |-> "m1", outcome |-> o, quantity |-> Rat(q, 1), price |-> p] :
        o \in {<<"Yes">>, <<"No">>}, q \in {10, -10, 1980}, p \in {Rat(1, 2), Rat(3, 5)}}

(* opportunities above and below minProfitThreshold *)
CheckOpportunities ==
    ExecOpportunities
    \cup Range(Candidates(<<Quote("m1", "Yes", 470, 480), Quote("m1", "No", 500, 510)>>, 1, 0))

(* amounts: what calculatePositionSize yields, maxPositionSize, just above *)
CheckAmounts == {Rat(10, 1), Rat(100, 1), Rat(101, 1)}

RiskUpdate == \E f \in RiskInputs : UpdatePositionUpTo(f, MaxRiskCalls)

RiskCheck == \E o \in CheckOpportunities, a \in CheckAmounts : CanExecuteTrade(o, a)

NextRisk == RiskUpdate \/ RiskCheck

SpecRisk == Init /\ [][NextRisk]_vars

(* The ledger used by a caller that records a fill only after              *)
(* canExecuteTrade has approved its amount quantity * price; approvals may *)
(* be collected before their fills are recorded.  Fills of 100 (the        *)
(* largest amount that is approved) and of 50.                             *)
ApprovedInputs ==
    {[marketId |-> "m1", outcome |-> <<"Yes">>, quantity |-> Rat(200, 1), price |-> Rat(1, 2)],
     [marketId |-> "m1", outcome |-> <<"No">>, quantity |-> Rat(100, 1), price |-> Rat(1, 2)]}

(* the caller asks for approval of a fill and keeps it if approved *)
RequestApproval(opportunity, f) ==
    /\ BagCardinality(approvals) + fillCount < MaxApprovedFills
    /\ \E amount \in {RMul(f.quantity, f.price)} :
       \E ok \in {canExecuteTrade(opportunity, amount, totalExposure)} :
          /\ lastCheck' = [called |-> TRUE, amount |-> amount,
                           profitPercentage |-> opportunity.profitPercentage,
                           exposure |-> totalExposure, result |-> ok]
          /\ approvals' = IF ok THEN approvals (+) SetToBag({f}) ELSE approvals
    /\ UNCHANGED <<now, detVars, tradingEnabled, execVars, monVars,
                   positions, totalExposure, fillCount, fillLog>>

(* the caller records a fill it holds an approval for *)
ApprovedFill(f) ==
    /\ BagIn(f, approvals)
    /\ RecordFill(f, MaxApprovedFills)
    /\ approvals' = approvals (-) SetToBag({f})

Approve == \E o \in CheckOpportunities, f \in ApprovedInputs : RequestApproval(o, f)

FillApproved == \E f \in ApprovedInputs : ApprovedFill(f)

NextApproved == Approve \/ FillApproved

SpecApproved == Init /\ [][NextApproved]_vars

----------------------------------------------------------------------------
(* TradeExecutor.  A Trade object is an entry of tradeHeap; its id is its  *)
(* index (uuidv4() yields a fresh id per object).  pendingTrades and       *)
(* completedTrades hold references, i.e. ids.                              *)

PENDING   == "pending"
EXECUTED  == "executed"
FAILED    == "failed"
CANCELLED == "cancelled"
BUY       == "buy"
SELL      == "sell"

(* variant: a leg is created with the opportunity's expected profit *)
NewTrade_WithProfit(id, opportunity, outcome, type, amount, price) ==
    [id |-> id, marketId |-> opportunity.marketId, outcome |-> outcome,
     type |-> type, amount |-> amount, price |-> price, status |-> PENDING,
     profit |-> <<opportunity.expectedProfit>>, txHash |-> FALSE, error |-> FALSE]

NewTrade(id, opportunity, outcome, type, amount, price) ==
    [id |-> id, marketId |-> opportunity.marketId, outcome |-> outcome,
     type |-> type, amount |-> amount, price |-> price, status |-> PENDING,
     profit |-> <<>>, txHash |-> FALSE, error |-> FALSE]

createComplementaryTrades(opportunity, firstId) ==
    LET outcomes == SplitPlus(opportunity.buyOutcome)
        amountPerOutcome == RDiv(opportunity.requiredCapital, Rat(Len(outcomes), 1))
    IN  [i \in 1..Len(outcomes) |->
            NewTrade(firstId + i - 1, opportunity, outcomes[i], BUY, amountPerOutcome,
                     RDiv(opportunity.buyPrice, Rat(Len(outcomes), 1)))]

(* variant: the Sell leg is created, and therefore submitted, first *)
createMispricingTrades_SellFirst(opportunity, firstId) ==
    <<NewTrade(firstId, opportunity, opportunity.sellOutcome, SELL,
               opportunity.requiredCapital, opportunity.sellPrice),
      NewTrade(firstId + 1, opportunity, opportunity.buyOutcome, BUY,
               opportunity.requiredCapital, opportunity.buyPrice)>>

createMispricingTrades(opportunity, firstId) ==
    <<NewTrade(firstId, opportunity, opportunity.buyOutcome, BUY,
               opportunity.requiredCapital, opportunity.buyPrice),
      NewTrade(firstId + 1, opportunity, opportunity.sellOutcome, SELL,
               opportunity.requiredCapital, opportunity.sellPrice)>>

createTemporalTrades(opportunity, firstId) ==
    LET outcomes == SplitPlus(opportunity.sellOutcome)
        amountPerOutcome == RDiv(opportunity.requiredCapital, Rat(Len(outcomes), 1))
    IN  [i \in 1..Len(outcomes) |->
            NewTrade(firstId + i - 1, opportunity, outcomes[i], SELL, amountPerOutcome,
                     RDiv(opportunity.sellPrice, Rat(Len(outcomes), 1)))]

(* the switch on opportunity.type *)
CreateTrades(opportunity, firstId) ==
    IF opportunity.type = ArbComplementary THEN createComplementaryTrades(opportunity, firstId)
    ELSE IF opportunity.type = ArbMispricing THEN createMispricingTrades(opportunity, firstId)
    ELSE IF opportunity.type = ArbTemporal THEN createTemporalTrades(opportunity, firstId)
    ELSE <<>>

(* variant: the mock trade is created like a live leg, still Pending *)
simulateTrade_Pending(opportunity, id) ==
    [id |-> id, marketId |-> opportunity.marketId, outcome |-> opportunity.buyOutcome,
     type |-> BUY, amount |-> opportunity.requiredCapital, price |-> opportunity.buyPrice,
     status |-> PENDING, profit |-> <<opportunity.expectedProfit>>,
     txHash |-> TRUE, error |-> FALSE]

simulateTrade(opportunity, id) ==
    [id |-> id, marketId |-> opportunity.marketId, outcome |-> opportunity.buyOutcome,
     type |-> BUY, amount |-> opportunity.requiredCapital, price |-> opportunity.buyPrice,
     status |-> EXECUTED, profit |-> <<opportunity.expectedProfit>>,
     txHash |-> TRUE, error |-> FALSE]

Retries(rc, id) == IF id \in DOMAIN rc THEN rc[id] ELSE 0

(* shouldRetry: its result and the retry counters afterwards *)
shouldRetry(rc, id) ==
    IF Retries(rc, id) >= maxRetries
    THEN [retry |-> FALSE, retryCount |-> rc]
    ELSE [retry |-> TRUE, retryCount |-> (id :> (Retries(rc, id) + 1)) @@ rc]

RECURSIVE Without(_, _)
Without(ids, id) ==
    IF ids = <<>> THEN <<>>
    ELSE IF ids[1] = id THEN Without(SubSeq(ids, 2, Len(ids)), id)
         ELSE <<ids[1]>> \o Without(SubSeq(ids, 2, Len(ids)), id)

(* Array.prototype.findIndex, 1-based; 0 stands for -1 *)
FindIndex(ids, id) ==
    IF \E i \in 1..Len(ids) : ids[i] = id
    THEN CHOOSE i \in 1..Len(ids) : ids[i] = id /\ \A j \in 1..(i - 1) : ids[j] # id
    ELSE 0

Splice(ids, i) == SubSeq(ids, 1, i - 1) \o SubSeq(ids, i + 1, Len(ids))

Bump(map, id) == (id :> ((IF id \in DOMAIN map THEN map[id] ELSE 0) + 1)) @@ map

(* variant: no opportunity counts as expired *)
IsExpired_Never(opportunity, t) == FALSE

(* opportunity.expiresAt && new Date() > opportunity.expiresAt; the        *)
(* detector sets expiresAt on every opportunity                            *)
IsExpired(opportunity, t) == t > opportunity.expiresAt

(* executeTrade up to its first suspension point.  In dry-run mode it      *)
(* returns simulateTrade's list; in live mode it validates, creates the    *)
(* legs, pushes the first one onto pendingTrades and suspends in           *)
(* executeIndividualTrade's sleep.                                         *)
ExecuteTrade(c, opportunity, maxHeap) ==
    /\ calls[c].pc # "await"
    /\ IF ~tradingEnabled
       THEN LET id == Len(tradeHeap) + 1
            IN  /\ id <= maxHeap
                /\ tradeHeap' = Append(tradeHeap, simulateTrade(opportunity, id))
                /\ calls' = [calls EXCEPT ![c] =
                       [pc |-> "done", opp |-> opportunity, startedAt |-> now,
                        trades |-> <<>>, idx |-> 0,
                        executedTrades |-> <<>>, ret |-> <<id>>]]
                /\ UNCHANGED <<pendingTrades, completedTrades, retryCount, submitCount>>
       ELSE IF IsExpired(opportunity, now) \/ Len(pendingTrades) >= maxPendingTrades
       THEN /\ calls' = [calls EXCEPT ![c] =
                   [pc |-> "done", opp |-> opportunity, startedAt |-> now,
                    trades |-> <<>>, idx |-> 0,
                    executedTrades |-> <<>>, ret |-> <<>>]]
            /\ UNCHANGED <<tradeHeap, pendingTrades, completedTrades, retryCount,
                           submitCount>>
       ELSE LET trades == CreateTrades(opportunity, Len(tradeHeap) + 1)
                ids    == [i \in 1..Len(trades) |-> trades[i].id]
            IN  /\ Len(tradeHeap) + Len(trades) <= maxHeap
                /\ tradeHeap' = tradeHeap \o trades
                /\ pendingTrades' = Append(pendingTrades, ids[1])
                /\ submitCount' = Bump(submitCount, ids[1])
                /\ calls' = [calls EXCEPT ![c] =
                       [pc |-> "await", opp |-> opportunity, startedAt |-> now,
                        trades |-> ids, idx |-> 1,
                        executedTrades |-> <<>>, ret |-> <<>>]]
                /\ UNCHANGED <<completedTrades, retryCount>>
    /\ UNCHANGED <<now, detVars, tradingEnabled, lastCancel, riskVars, monVars>>

(* the simulated submission returns (success: Math.random() > 0.05):       *)
(* executeIndividualTrade sets the status, executeTrade's loop body files  *)
(* the result and either submits the next leg or returns.                  *)
Resume(c, success) ==
    /\ calls[c].pc = "await"
    /\ LET call  == calls[c]
           id    == call.trades[call.idx]
           heap1 == [tradeHeap EXCEPT ![id].status = IF success THEN EXECUTED ELSE FAILED,
                                      ![id].txHash = IF success THEN TRUE ELSE @,
                                      ![id].error = IF success THEN @ ELSE TRUE]
           sr    == IF success THEN [retry |-> FALSE, retryCount |-> retryCount]
                               ELSE shouldRetry(retryCount, id)
           moved == success \/ ~sr.retry
           pend1 == IF moved THEN Without(pendingTrades, id) ELSE pendingTrades
           exec1 == IF success THEN Append(call.executedTrades, id)
                               ELSE call.executedTrades
           more  == call.idx < Len(call.trades)
       IN  /\ tradeHeap' = heap1
           /\ retryCount' = sr.retryCount
           /\ completedTrades' = IF moved THEN Append(completedTrades, id)
                                          ELSE completedTrades
           /\ IF more
              THEN LET next == call.trades[call.idx + 1]
                   IN  /\ pendingTrades' = Append(pend1, next)
                       /\ submitCount' = Bump(submitCount, next)
                       /\ calls' = [calls EXCEPT ![c].idx = call.idx + 1,
                                                 ![c].executedTrades = exec1]
              ELSE /\ pendingTrades' = pend1
                   /\ submitCount' = submitCount
                   /\ calls' = [calls EXCEPT ![c].pc = "done",
                                             ![c].executedTrades = exec1,
                                             ![c].ret = exec1]
    /\ UNCHANGED <<now, detVars, tradingEnabled, lastCancel, riskVars, monVars>>

(* cancelTrade(tradeId): no suspension point, so it runs as one step *)
CancelTrade(tradeId) ==
    /\ lastCancel.count < MaxCancels
    /\ LET tradeIndex == FindIndex(pendingTrades, tradeId)
           before == IF tradeId \in 1..Len(tradeHeap) THEN tradeHeap[tradeId].status
                                                      ELSE "none"
       IN  IF tradeIndex = 0
           THEN /\ lastCancel' = [count |-> lastCancel.count + 1,
                                  result |-> FALSE, statusBefore |-> before]
                /\ UNCHANGED <<tradeHeap, pendingTrades, completedTrades>>
           ELSE /\ tradeHeap' = [tradeHeap EXCEPT ![tradeId].status = CANCELLED]
                /\ pendingTrades' = Splice(pendingTrades, tradeIndex)
                /\ completedTrades' = Append(completedTrades, tradeId)
                /\ lastCancel' = [count |-> lastCancel.count + 1,
                                  result |-> TRUE, statusBefore |-> before]
    /\ UNCHANGED <<now, detVars, tradingEnabled, retryCount, submitCount, calls, riskVars,
                   monVars>>

(* a new invocation takes the first frame that is not suspended *)
FreeCaller(c) == calls[c].pc # "await" /\ \A d \in 1..(c - 1) : calls[d].pc = "await"

Execute ==
    \E c \in Callers, o \in ExecOpportunities :
        FreeCaller(c) /\ ExecuteTrade(c, o, MaxTrades)
Submitted == \E c \in Callers, success \in BOOLEAN : Resume(c, success)
Cancel == \E tradeId \in 1..(Len(tradeHeap) + 1) : CancelTrade(tradeId)

ExecutorTick == \E dt \in ExecTickSteps : Tick(dt)

NextExecutor == ExecutorTick \/ Execute \/ Submitted \/ Cancel \/ Fill

SpecExecutor == InitAnyMode /\ [][NextExecutor]_vars

(* Live mode, one invocation at a time, a two-leg (Mispricing) opportunity  *)
(* each time, no cancellation: the executor driven by a single caller that *)
(* awaits every executeTrade before the next.                              *)
InitLive ==
    /\ now = 0
    /\ tradingEnabled = TRUE
    /\ InitDetector
    /\ InitExecutor
    /\ InitRisk
    /\ InitMonitor

ExecuteNext ==
    \E o \in {x \in ExecOpportunities : x.type = ArbMispricing} :
        ExecuteTrade(1, o, MaxSeqTrades)

SubmittedNext == \E success \in BOOLEAN : Resume(1, success)

NextSequential == ExecuteNext \/ SubmittedNext

SpecSequential == InitLive /\ [][NextSequential]_vars

----------------------------------------------------------------------------
(* MarketStateTracker.  A MarketState is kept as [market, prices,          *)
(* priceHistory, updateCount]; lastUpdate and the two derived metrics      *)
(* (averageSpread, volatility) do not influence the others and are left    *)
(* out.                                                                    *)

maxHistoryLength == 100

(* variant: at capacity the newest snapshot is dropped (pop for shift) *)
updateMarket_DropNewest(st, marketId, prices) ==
    IF marketId \in DOMAIN st
    THEN LET existing == st[marketId]
             appended == Append(existing.priceHistory, prices)
             priceHistory == IF Len(appended) > maxHistoryLength
                             THEN SubSeq(appended, 1, Len(appended) - 1) ELSE appended
         IN  [st EXCEPT ![marketId] =
                 [market |-> marketId, prices |-> prices, priceHistory |-> priceHistory,
                  updateCount |-> existing.updateCount + 1]]
    ELSE (marketId :> [market |-> marketId, prices |-> prices,
                       priceHistory |-> <<prices>>, updateCount |-> 1]) @@ st

(* variant: the oldest snapshot is dropped as soon as the history reaches  *)
(* maxHistoryLength                                                        *)
updateMarket_ShiftEarly(st, marketId, prices) ==
    IF marketId \in DOMAIN st
    THEN LET existing == st[marketId]
             appended == Append(existing.priceHistory, prices)
             priceHistory == IF Len(appended) >= maxHistoryLength
                             THEN Tail(appended) ELSE appended
         IN  [st EXCEPT ![marketId] =
                 [market |-> marketId, prices |-> prices, priceHistory |-> priceHistory,
                  updateCount |-> existing.updateCount + 1]]
    ELSE (marketId :> [market |-> marketId, prices |-> prices,
                       priceHistory |-> <<prices>>, updateCount |-> 1]) @@ st

(* updateMarket(market, prices): the states map afterwards *)
updateMarket(st, marketId, prices) ==
    IF marketId \in DOMAIN st
    THEN LET existing == st[marketId]
             appended == Append(existing.priceHistory, prices)
             priceHistory == IF Len(appended) > maxHistoryLength
                             THEN Tail(appended) ELSE appended
         IN  [st EXCEPT ![marketId] =
                 [market |-> marketId, prices |-> prices, priceHistory |-> priceHistory,
                  updateCount |-> existing.updateCount + 1]]
    ELSE (marketId :> [market |-> marketId, prices |-> prices,
                       priceHistory |-> <<prices>>, updateCount |-> 1]) @@ st

(* calculateVolatility(priceHistory) up to its final Math.sqrt: the        *)
(* variance, whose square root the volatility is (NaN for NaN).  A         *)
(* MarketState's volatility is calculateVolatility of its priceHistory at  *)
(* every update (0 for the single snapshot of a new state), so it is read  *)
(* off the history.                                                        *)
RECURSIVE AllLastPrices(_)
AllLastPrices(priceHistory) ==
    IF priceHistory = <<>> THEN <<>>
    ELSE AllLastPrices(SubSeq(priceHistory, 1, Len(priceHistory) - 1))
         \o [i \in 1..Len(priceHistory[Len(priceHistory)]) |->
                priceHistory[Len(priceHistory)][i].lastPrice]

SquaredDeviations(allPrices, mean) ==
    [i \in 1..Len(allPrices) |->
        RMul(RSub(allPrices[i], mean), RSub(allPrices[i], mean))]

calculateVariance(priceHistory) ==
    IF Len(priceHistory) < 2 THEN Zero
    ELSE LET allPrices == AllLastPrices(priceHistory)
             mean      == RDiv(RSum(allPrices), Rat(Len(allPrices), 1))
         IN  RDiv(RSum(SquaredDeviations(allPrices, mean)), Rat(Len(allPrices), 1))

removeMarket(st, marketId) == [k \in DOMAIN st \ {marketId} |-> st[k]]

(* the arrival log that goes with updateMarket and removeMarket *)
LogArrival(log, marketId, prices) ==
    IF marketId \in DOMAIN log
    THEN [log EXCEPT ![marketId] = Append(@, prices)]
    ELSE (marketId :> <<prices>>) @@ log

(* the quote set of the k-th fetch: every fetch delivers a quote of its    *)
(* own, so that the snapshots of a history can be told apart               *)
SerialQuotes(marketId, k) == <<Quote(marketId, "Yes", k, k + 10)>>

UpdateMarket(marketId, prices) ==
    /\ updateCalls < MaxUpdates
    /\ states' = updateMarket(states, marketId, prices)
    /\ arrivals' = LogArrival(arrivals, marketId, prices)
    /\ updateCalls' = updateCalls + 1
    /\ UNCHANGED <<now, detVars, tradingEnabled, execVars, riskVars, monOnlyVars>>

RemoveMarket(marketId) ==
    /\ marketId \in DOMAIN states
    /\ states' = removeMarket(states, marketId)
    /\ arrivals' = removeMarket(arrivals, marketId)
    /\ UNCHANGED <<now, detVars, tradingEnabled, execVars, riskVars, updateCalls,
                   monOnlyVars>>

TrackerUpdate == UpdateMarket("m1", SerialQuotes("m1", updateCalls + 1))

TrackerRemove == RemoveMarket("m1")

NextTracker == TrackerUpdate \/ TrackerRemove

SpecTracker == Init /\ [][NextTracker]_vars

----------------------------------------------------------------------------
(* MarketMonitor.  A fetchAndUpdateMarkets invocation is suspended at its  *)
(* awaits (the market-list fetch, then one price fetch per market), where  *)
(* start(), stop(), the polling interval, another invocation and the API's *)
(* answers interleave.  A Market is identified by its id.  MonitoringStats *)
(* is kept as its two counters totalErrors and totalPriceUpdates.          *)

(* what api.getMarkets delivers, after the active/liquidity filter *)
MarketLists == {<<>>, <<"m1">>, <<"m1", "m2">>}

(* what api.getMarketPrices delivers for a market *)
PriceResults(marketId) ==
    {<<Quote(marketId, "Yes", 470, 480), Quote(marketId, "No", 500, 510)>>,
     <<Quote(marketId, "Yes", 550, 500), Quote(marketId, "No", 500, 510)>>}

(* fetchMarkets / fetchPrices: the catch block turns a failure into [] *)
fetchMarkets(failed, apiMarkets) == IF failed THEN <<>> ELSE apiMarkets
fetchPrices(failed, apiPrices)   == IF failed THEN <<>> ELSE apiPrices

RemoveAll(map, ids) == [k \in DOMAIN map \ ids |-> map[k]]

(* where the invocation in slot s stands after its step: at the price      *)
(* fetch of list[idx], or finished; when the finished invocation is the    *)
(* initial fetch of a start() call, start() goes on and sets the polling   *)
(* interval (timer ids: the ordinal of the invocation)                     *)
Advance(s, list, idx) ==
    IF idx <= Len(list)
    THEN [tick |-> [tick EXCEPT ![s] = [pc |-> "prices", owner |-> tick[s].owner,
                                        no |-> tick[s].no, list |-> list, idx |-> idx]],
          pollInterval |-> pollInterval, timers |-> timers]
    ELSE IF tick[s].owner = "start"
         THEN [tick |-> [tick EXCEPT ![s] = IdleTick], pollInterval |-> tick[s].no,
               timers |-> timers \cup {tick[s].no}]
         ELSE [tick |-> [tick EXCEPT ![s] = IdleTick], pollInterval |-> pollInterval,
               timers |-> timers]

(* the slot a new invocation takes: the lowest idle one *)
FreeSlot(s) == tick[s].pc = "idle" /\ \A r \in TickSlots : r < s => tick[r].pc # "idle"

BeginTick(s, owner) ==
    /\ FreeSlot(s)
    /\ ticksBegun < MaxTicks
    /\ tick' = [tick EXCEPT ![s] = [pc |-> "markets", owner |-> owner,
                                    no |-> ticksBegun + 1, list |-> <<>>, idx |-> 0]]
    /\ ticksBegun' = ticksBegun + 1

(* start(), up to its await of the initial fetchAndUpdateMarkets *)
Start ==
    /\ ~isRunning
    /\ isRunning' = TRUE
    /\ \E s \in TickSlots : BeginTick(s, "start")
    /\ stopReturned' = FALSE
    /\ UNCHANGED <<now, detVars, tradingEnabled, execVars, riskVars, trackVars,
                   marketCache, priceCache, pollInterval, timers, totalErrors,
                   totalPriceUpdates, emitted, lastFetch>>

(* stop() *)
Stop ==
    /\ isRunning' = FALSE
    /\ IF pollInterval # 0
       THEN timers' = timers \ {pollInterval} /\ pollInterval' = 0
       ELSE UNCHANGED <<timers, pollInterval>>
    /\ stopReturned' = TRUE
    /\ UNCHANGED <<now, detVars, tradingEnabled, execVars, riskVars, trackVars,
                   marketCache, priceCache, tick, ticksBegun, totalErrors,
                   totalPriceUpdates, emitted, lastFetch>>

(* a polling interval that is set fires *)
TimerFires ==
    /\ timers # {}
    /\ \E s \in TickSlots : BeginTick(s, "timer")
    /\ UNCHANGED <<now, detVars, tradingEnabled, execVars, riskVars, trackVars,
                   marketCache, priceCache, isRunning, pollInterval, timers,
                   totalErrors, totalPriceUpdates, emitted, lastFetch, stopReturned>>

(* fetchAndUpdateMarkets from the answer of the market-list fetch up to    *)
(* the first price fetch (steps 1 and 2)                                   *)
(* variant: every listed market is announced as new *)
NewIds_All(list, previousMarketIds) == Range(list)

(* step 2: the markets of the list that are not cached, and the cached     *)
(* markets that are not in the list                                        *)
NewIds(list, previousMarketIds) == Range(list) \ previousMarketIds
RemovedIds(list, previousMarketIds) == previousMarketIds \ Range(list)

MarketsFetched(s, failed, apiMarkets) ==
    /\ tick[s].pc = "markets"
    /\ \E list \in {fetchMarkets(failed, apiMarkets)} :
       \E newIds \in {NewIds(list, marketCache)} :
       \E removedIds \in {RemovedIds(list, marketCache)} :
       \E next \in {Advance(s, list, 1)} :
          /\ marketCache' = (marketCache \cup Range(list)) \ removedIds
          /\ priceCache' = RemoveAll(priceCache, removedIds)
          /\ states' = RemoveAll(states, removedIds)
          /\ arrivals' = RemoveAll(arrivals, removedIds)
          /\ emitted' = [emitted EXCEPT
                            !.added = @ + Cardinality(newIds),
                            !.removed = @ + Cardinality(removedIds),
                            !.addedFor = [m \in MarketIds |->
                                             IF m \in newIds THEN @[m] + 1 ELSE @[m]],
                            !.removedFor = [m \in MarketIds |->
                                               IF m \in removedIds THEN @[m] + 1 ELSE @[m]]]
          /\ tick' = next.tick
          /\ pollInterval' = next.pollInterval
          /\ timers' = next.timers
    /\ lastFetch' = [n |-> lastFetch.n + 1, kind |-> "markets", failed |-> failed,
                     marketId |-> "none", slot |-> s]
    /\ UNCHANGED <<now, detVars, tradingEnabled, execVars, riskVars, updateCalls,
                   isRunning, ticksBegun, totalErrors, totalPriceUpdates, stopReturned>>

(* index.ts: the PRICE_UPDATED listener runs detection on the event's      *)
(* prices and logs the number of opportunities; the risk manager and the   *)
(* trade executor are not used                                             *)
OnPriceUpdated(marketId, prices) == DetectorCall(prices)

(* the loop body of step 3 for the market whose price fetch has answered;  *)
(* wired: the application's PRICE_UPDATED listener is attached and runs    *)
(* inside emit                                                             *)
ProcessPrices(s, failed, apiPrices, wired) ==
    /\ tick[s].pc = "prices"
    /\ \E marketId \in {tick[s].list[tick[s].idx]} :
       \E fetched \in {fetchPrices(failed, apiPrices)} :
       \E next \in {Advance(s, tick[s].list, tick[s].idx + 1)} :
          /\ states' = updateMarket(states, marketId, fetched)
          /\ arrivals' = LogArrival(arrivals, marketId, fetched)
          /\ priceCache' = (marketId :> fetched) @@ priceCache
          /\ emitted' = [emitted EXCEPT !.priceUpdated[marketId] = @ + 1]
          /\ lastFetch' = [n |-> lastFetch.n + 1, kind |-> "prices", failed |-> failed,
                           marketId |-> marketId, slot |-> s]
          /\ tick' = next.tick
          /\ pollInterval' = next.pollInterval
          /\ timers' = next.timers
          /\ IF wired THEN OnPriceUpdated(marketId, fetched) ELSE UNCHANGED detVars
    /\ updateCalls' = updateCalls + 1
    /\ totalPriceUpdates' = totalPriceUpdates + 1
    /\ UNCHANGED <<now, tradingEnabled, execVars, riskVars, marketCache,
                   isRunning, ticksBegun, totalErrors, stopReturned>>

(* the monitor on its own: nobody listens *)
PricesFetched(s, failed, apiPrices) == ProcessPrices(s, failed, apiPrices, FALSE)

MarketsAnswer ==
    \E s \in TickSlots :
        \/ \E apiMarkets \in MarketLists : MarketsFetched(s, FALSE, apiMarkets)
        \/ MarketsFetched(s, TRUE, <<>>)

PricesAnswer ==
    \E s \in TickSlots :
        /\ tick[s].pc = "prices"
        /\ \/ \E apiPrices \in PriceResults(tick[s].list[tick[s].idx]) :
                  PricesFetched(s, FALSE, apiPrices)
           \/ PricesFetched(s, TRUE, <<>>)

NextMonitor == Start \/ Stop \/ TimerFires \/ MarketsAnswer \/ PricesAnswer

SpecMonitor == Init /\ [][NextMonitor]_vars

----------------------------------------------------------------------------
(* The assembled application (index.ts): the five services are constructed *)
(* and the monitor's events are wired to listeners.  The MARKET_ADDED,     *)
(* MARKET_REMOVED, PRICE_SPIKE and MONITORING_ERROR listeners only log.    *)

AppPricesAnswer ==
    \E s \in TickSlots :
        /\ tick[s].pc = "prices"
        /\ \/ \E apiPrices \in PriceResults(tick[s].list[tick[s].idx]) :
                  ProcessPrices(s, FALSE, apiPrices, TRUE)
           \/ ProcessPrices(s, TRUE, <<>>, TRUE)

NextApp == Start \/ Stop \/ TimerFires \/ MarketsAnswer \/ AppPricesAnswer

SpecApp == Init /\ [][NextApp]_vars

----------------------------------------------------------------------------
(* Properties of the TradeExecutor *)

TradeIds       == 1..Len(tradeHeap)
Status(id)     == tradeHeap[id].status
InPending(id)  == \E i \in 1..Len(pendingTrades) : pendingTrades[i] = id
InCompleted(id) == \E i \in 1..Len(completedTrades) : completedTrades[i] = id
Terminal       == {EXECUTED, FAILED, CANCELLED}
Submissions(id) == IF id \in DOMAIN submitCount THEN submitCount[id] ELSE 0
Quiescent      == \A c \in Callers : calls[c].pc # "await"

(* C1: with trading disabled, every executeTrade call returns exactly one  *)
(* trade, of status Executed, and leaves the ledger's positions and total  *)
(* exposure, pendingTrades, completedTrades and retryCount unchanged.      *)
C1_DryRunFrame ==
    [][\A c \in Callers :
          (~tradingEnabled /\ calls'[c] # calls[c]) =>
              /\ calls'[c].pc = "done"
              /\ Len(calls'[c].ret) = 1
              /\ tradeHeap'[calls'[c].ret[1]].status = EXECUTED
              /\ UNCHANGED <<positions, totalExposure, pendingTrades,
                             completedTrades, retryCount>>]_vars

(* a dry-run call made after the opportunity expired and after the ledger  *)
(* recorded a fill has returned                                            *)
C1_Witness ==
    /\ ~tradingEnabled
    /\ calls[1].pc = "done"
    /\ calls[1].opp.type = ArbTemporal
    /\ calls[1].startedAt > calls[1].opp.expiresAt
    /\ totalExposure # Zero
    /\ Len(calls[1].ret) = 1

(* C2: a leg whose submission failed is resubmitted under its id until it  *)
(* has failed maxRetries + 1 times, then sits in completedTrades as        *)
(* Failed; no leg is submitted more than maxRetries + 1 times.  Stated at  *)
(* the states in which no executeTrade invocation is suspended, where      *)
(* nothing is left to resubmit a leg.                                      *)
C2_RetryUntilBound ==
    Quiescent =>
        \A id \in TradeIds :
            /\ Submissions(id) <= maxRetries + 1
            /\ Status(id) = FAILED =>
                   (Submissions(id) = maxRetries + 1 /\ InCompleted(id))

(* C3: once executeTrade has returned, none of its legs is in              *)
(* pendingTrades: each is in completedTrades, Executed, Failed or          *)
(* Cancelled.                                                              *)
C3_LegsLeavePending ==
    \A c \in Callers :
        calls[c].pc = "done" =>
            \A i \in 1..Len(calls[c].trades) :
                LET id == calls[c].trades[i]
                IN  ~InPending(id) /\ InCompleted(id) /\ Status(id) \in Terminal

(* C4: a trade's status changes only from Pending, and only to Executed,   *)
(* Failed or Cancelled.                                                    *)
C4_StatusTransitions ==
    [][\A id \in TradeIds :
          tradeHeap'[id].status # tradeHeap[id].status =>
              (tradeHeap[id].status = PENDING /\ tradeHeap'[id].status \in Terminal)]_vars

(* C5: pendingTrades never holds more than maxPendingTrades trades. *)
C5_PendingCeiling == Len(pendingTrades) <= maxPendingTrades

(* C6: cancelTrade returns true only for a trade whose status is Pending,  *)
(* which it sets to Cancelled and removes from pendingTrades; otherwise it *)
(* returns false and changes no status and neither array.                  *)
C6_CancelContract ==
    [][lastCancel'.count # lastCancel.count =>
          IF lastCancel'.result
          THEN /\ lastCancel'.statusBefore = PENDING
               /\ \E id \in TradeIds :
                      /\ InPending(id)
                      /\ tradeHeap'[id].status = CANCELLED
                      /\ pendingTrades' = Without(pendingTrades, id)
          ELSE UNCHANGED <<tradeHeap, pendingTrades, completedTrades>>]_vars

----------------------------------------------------------------------------
(* Properties of the ArbitrageDetector, read off the latest call:          *)
(* lastQuotes is its argument, lastResult its return value and             *)
(* lastRecentBefore the opportunities it remembered when it was called.    *)

Returned(type) == {lastResult[i] : i \in {k \in 1..Len(lastResult) : lastResult[k].type = type}}

Remembered(marketId, type) ==
    {r \in lastRecentBefore : r.marketId = marketId /\ r.type = type}

BinaryCall == detectCalls > 0 /\ Len(lastQuotes) = 2

AskSum == RAdd(lastQuotes[1].askPrice, lastQuotes[2].askPrice)
BidSum == RAdd(lastQuotes[1].bidPrice, lastQuotes[2].bidPrice)
MeanSpread ==
    RDiv(RAdd(RSub(lastQuotes[1].askPrice, lastQuotes[1].bidPrice),
              RSub(lastQuotes[2].askPrice, lastQuotes[2].bidPrice)), Rat(2, 1))
ComplementaryPct == RDiv(RSub(One, AskSum), AskSum)

(* the quotes Yes bid .47/ask .48, No bid .50/ask .51 *)
ScenarioQuotes == <<Quote("m1", "Yes", 470, 480), Quote("m1", "No", 500, 510)>>

C8_MispricingPerOutcome ==
    detectCalls > 0 =>
        \A i \in 1..Len(lastQuotes) :
            LET q   == lastQuotes[i]
                pct == RDiv(RSub(q.bidPrice, q.askPrice), q.askPrice)
            IN  (/\ RLt(q.askPrice, q.bidPrice)
                 /\ ~RLt(pct, Rat(2, 100))
                 /\ \A r \in Remembered(q.marketId, ArbMispricing) :
                        r.buyOutcome # <<q.outcome>>)
                => \E o \in Returned(ArbMispricing) :
                       /\ o.buyOutcome = <<q.outcome>>
                       /\ o.expectedProfit = RSub(q.bidPrice, q.askPrice)
                       /\ o.profitPercentage = pct

(* C9: whenever bid0 + bid1 > 1.0 the call returns a Temporal opportunity  *)
(* with expectedProfit (bid0 + bid1) - 1.0.  Stated for the quotes whose   *)
(* profit meets minProfitThreshold and whose slippage estimate (1.5 times  *)
(* the mean spread) is within maxSlippage, on a market for which the       *)
(* detector remembers no Temporal opportunity.                             *)
C9_TemporalReturned ==
    (/\ BinaryCall
     /\ RLt(One, BidSum)
     /\ ~RLt(RSub(BidSum, One), Rat(2, 100))
     /\ RLe(RMul(MeanSpread, Rat(15, 10)), Rat(1, 100))
     /\ Remembered(lastQuotes[1].marketId, ArbTemporal) = {})
    => \E o \in Returned(ArbTemporal) : o.expectedProfit = RSub(BidSum, One)

(* C10: a call that repeats the quotes of the call before it, within the   *)
(* TTL of that call, returns an empty list.                                *)
C10_RepeatedCallEmpty ==
    (repeatedQuotes /\ lastCallAt - prevCallAt <= opportunityTTL) => lastResult = <<>>

(* the candidates of the last call, and whether one of them was returned   *)
(* (the uuid aside)                                                        *)
LastCandidates ==
    IF lastQuotes = <<>> THEN {}
    ELSE {[c EXCEPT !.id = 0] : c \in Range(Candidates(lastQuotes, 0, lastCallAt))}

WasReturned(c) == \E i \in 1..Len(lastResult) : [lastResult[i] EXCEPT !.id = 0] = c

MeetsThresholds(c) ==
    /\ ~RLt(c.profitPercentage, minProfitThreshold)
    /\ ~RLt(c.confidence, minConfidence)
    /\ ~RLt(maxSlippage, c.estimatedSlippage)

(* C11: a candidate that meets the three thresholds is left out of the     *)
(* result only if the detector remembered an opportunity of the same       *)
(* market and strategy, with profitPercentage within 0.001 of it, that was *)
(* detected at most opportunityTTL before the call.                        *)
C11_DuplicateOnlyIfFresh ==
    detectCalls > 0 =>
        \A c \in LastCandidates :
            (MeetsThresholds(c) /\ ~WasReturned(c)) =>
                \E r \in lastRecentBefore :
                    /\ r.marketId = c.marketId
                    /\ r.type = c.type
                    /\ RLt(RAbs(RSub(r.profitPercentage, c.profitPercentage)), Rat(1, 1000))
                    /\ lastCallAt - r.timestamp <= opportunityTTL

(* C12: every returned opportunity has profitPercentage >=                 *)
(* minProfitThreshold, confidence >= 0.6 and estimatedSlippage <=          *)
(* maxSlippage.                                                            *)
C12_ReturnedMeetThresholds ==
    \A i \in 1..Len(lastResult) :
        /\ RLe(Rat(2, 100), lastResult[i].profitPercentage)
        /\ RLe(Rat(6, 10), lastResult[i].confidence)
        /\ RLe(lastResult[i].estimatedSlippage, Rat(1, 100))

(* a call returned opportunities of two strategies while candidates of     *)
(* the same call were filtered out                                         *)
C12_Witness ==
    /\ Len(lastResult) >= 2
    /\ \E i, j \in 1..Len(lastResult) : lastResult[i].type # lastResult[j].type
    /\ \E c \in LastCandidates : ~MeetsThresholds(c)

(* C13: after a detectOpportunities call has returned, an empty quote list *)
(* included, no remembered opportunity is older than opportunityTTL.       *)
C13_NoStaleAfterCall ==
    detectCalls > 0 =>
        \A o \in recentOpportunities : lastCallAt - o.timestamp <= opportunityTTL

----------------------------------------------------------------------------
(* Properties of the MarketStateTracker *)

LastN(seq, n) == SubSeq(seq, Len(seq) - n + 1, Len(seq))

(* C14: a tracked market's priceHistory never holds more than 100          *)
(* snapshots, and it is the most recent min(n, 100) of the n quote sets    *)
(* passed to updateMarket for it, in arrival order.                        *)
C14_HistoryFifo ==
    \A m \in DOMAIN states :
        LET n == Len(arrivals[m])
        IN  /\ Len(states[m].priceHistory) <= 100
            /\ states[m].priceHistory = LastN(arrivals[m], IF n < 100 THEN n ELSE 100)

(* one update beyond the capacity has been made to a market *)
C14_Witness ==
    \E m \in DOMAIN states :
        Len(arrivals[m]) > 100 /\ Len(states[m].priceHistory) = 100

----------------------------------------------------------------------------
(* Properties of the RiskManager *)

(* getPositions(): the Position objects; getTotalExposure(): the field *)
getPositions == {positions[k] : k \in DOMAIN positions}
getTotalExposure == totalExposure

RECURSIVE SumOfValues(_)
SumOfValues(ps) ==
    IF ps = {} THEN Zero
    ELSE LET p == CHOOSE x \in ps : TRUE
         IN  RAdd(SumOfValues(ps \ {p}), RMul(p.quantity, p.averagePrice))

C16_CanExecuteContract ==
    [][lastCheck' # lastCheck =>
          /\ lastCheck'.result <=>
                 /\ RLe(lastCheck'.amount, Rat(100, 1))
                 /\ RLe(RAdd(totalExposure, lastCheck'.amount), Rat(1000, 1))
                 /\ RLe(Rat(2, 100), lastCheck'.profitPercentage)
          /\ UNCHANGED <<positions, totalExposure>>]_vars

----------------------------------------------------------------------------
(* Properties of the MarketMonitor *)

FetchAnswered(kind) == lastFetch'.n # lastFetch.n /\ lastFetch'.kind = kind

FetchFailed(kind) == FetchAnswered(kind) /\ lastFetch'.failed

(* C17: a failed market-list fetch leaves the market cache, the cached     *)
(* prices and every MarketState as they were and emits no MARKET_REMOVED.  *)
C17_ListFailureIsNoData ==
    [][FetchFailed("markets") =>
          /\ UNCHANGED <<marketCache, priceCache, states>>
          /\ emitted'.removed = emitted.removed]_vars

(* C18: a failed price fetch for a market appends no snapshot to its       *)
(* history, leaves its cached prices unchanged and emits no PRICE_UPDATED  *)
(* for it, and the invocation goes on with the next market of its list.    *)
C18_PriceFailureSkipsMarket ==
    [][FetchFailed("prices") =>
          LET m == lastFetch'.marketId
          IN  /\ m \in DOMAIN states <=> m \in DOMAIN states'
              /\ m \in DOMAIN states => states'[m] = states[m]
              /\ m \in DOMAIN priceCache <=> m \in DOMAIN priceCache'
              /\ m \in DOMAIN priceCache => priceCache'[m] = priceCache[m]
              /\ emitted'.priceUpdated[m] = emitted.priceUpdated[m]
              /\ LET s == lastFetch'.slot
                 IN  IF tick[s].idx < Len(tick[s].list)
                     THEN tick'[s].pc = "prices" /\ tick'[s].idx = tick[s].idx + 1
                     ELSE tick'[s].pc = "idle"]_vars

(* C19: every failed market-list fetch and every failed price fetch        *)
(* increases totalErrors by exactly one, and a failed price fetch does not *)
(* increase totalPriceUpdates.                                             *)
C19_FailuresCounted ==
    [][/\ (FetchFailed("markets") \/ FetchFailed("prices")) =>
              totalErrors' = totalErrors + 1
       /\ FetchFailed("prices") => totalPriceUpdates' = totalPriceUpdates]_vars

(* C20: once stop() has returned, no fetchAndUpdateMarkets invocation      *)
(* begins until start() is called again.                                   *)
C20_NoTickAfterStop ==
    [][ticksBegun' # ticksBegun => ~stopReturned']_vars

NoTickInProgress == \A s \in TickSlots : tick[s].pc = "idle"

(* C21: whenever no fetchAndUpdateMarkets invocation is in progress, every *)
(* market id that has a MarketState or cached prices is in the market      *)
(* cache, also after invocations that overlapped.                          *)
C21_NoStateWithoutMarket ==
    NoTickInProgress => (DOMAIN states \cup DOMAIN priceCache) \subseteq marketCache

(* isMonitoring() *)
isMonitoring == isRunning

(* C30: at most one polling interval is set at any time, and isMonitoring()*)
(* is true whenever one is set.                                            *)
C30_OneTimerWhileRunning ==
    /\ Cardinality(timers) <= 1
    /\ timers # {} => isMonitoring

----------------------------------------------------------------------------
(* Properties of executeTrade's leg synthesis and submission order *)

(* the quotes an opportunity handed to executeTrade was detected on *)
SourceQuotes(opportunity) ==
    CHOOSE q \in ExecQuoteSets : opportunity \in Range(Candidates(q, 1, 0))

(* this step is a live executeTrade call of frame c that passed validation *)
Accepts(c) == tradingEnabled /\ calls[c].pc # "await" /\ calls'[c].pc = "await"

(* the legs the call of frame c has created, as they are after the step *)
NewLegs(c) == [i \in 1..Len(calls'[c].trades) |-> tradeHeap'[calls'[c].trades[i]]]

SubmissionsNext(id) == IF id \in DOMAIN submitCount' THEN submitCount'[id] ELSE 0

(* C22: for a Complementary opportunity detected on n outcomes and         *)
(* accepted in live mode, executeTrade creates exactly n Buy legs, one per *)
(* outcome of the market, each of amount requiredCapital / n, so that the  *)
(* amounts sum to requiredCapital.                                         *)
C22_OneBuyLegPerOutcome ==
    [][\A c \in Callers :
          (Accepts(c) /\ calls'[c].opp.type = ArbComplementary) =>
              LET o      == calls'[c].opp
                  quotes == SourceQuotes(o)
                  n      == Len(quotes)
                  legs   == NewLegs(c)
              IN  /\ Len(legs) = n
                  /\ \A i \in 1..Len(legs) :
                         /\ legs[i].type = BUY
                         /\ legs[i].amount = RDiv(o.requiredCapital, Rat(n, 1))
                  /\ {legs[i].outcome : i \in 1..Len(legs)}
                         = {<<quotes[i].outcome>> : i \in 1..n}
                  /\ RSum([i \in 1..Len(legs) |-> legs[i].amount]) = o.requiredCapital]_vars

(* C23: for a Mispricing opportunity accepted in live mode, executeTrade   *)
(* creates exactly two legs for the opportunity's outcome, a Buy at the    *)
(* quote's ask and a Sell at the quote's bid, each for requiredCapital;    *)
(* and the Sell leg is submitted only in a step after which the Buy leg's  *)
(* submission has returned (its status is Executed or Failed).             *)
C23_BuyThenSell ==
    [][\A c \in Callers :
          /\ (Accepts(c) /\ calls'[c].opp.type = ArbMispricing) =>
                 LET o      == calls'[c].opp
                     quotes == SourceQuotes(o)
                     legs   == NewLegs(c)
                 IN  /\ Len(legs) = 2
                     /\ \E b, s \in 1..2, k \in 1..Len(quotes) :
                            /\ o.buyOutcome = <<quotes[k].outcome>>
                            /\ legs[b].type = BUY /\ legs[s].type = SELL
                            /\ legs[b].price = quotes[k].askPrice
                            /\ legs[s].price = quotes[k].bidPrice
                            /\ legs[b].outcome = <<quotes[k].outcome>>
                            /\ legs[s].outcome = <<quotes[k].outcome>>
                            /\ legs[b].amount = o.requiredCapital
                            /\ legs[s].amount = o.requiredCapital
          /\ (tradingEnabled /\ calls'[c].pc # "idle"
                /\ calls'[c].opp.type = ArbMispricing) =>
                 \A i, j \in 1..Len(calls'[c].trades) :
                     LET s == calls'[c].trades[i]
                         b == calls'[c].trades[j]
                     IN  (/\ tradeHeap'[s].type = SELL
                          /\ tradeHeap'[b].type = BUY
                          /\ SubmissionsNext(s) > Submissions(s))
                             => tradeHeap'[b].status \in {EXECUTED, FAILED}]_vars

(* a live Mispricing call has returned with both legs executed, the Buy    *)
(* created first                                                           *)
C23_Witness ==
    \E c \in Callers :
        /\ tradingEnabled
        /\ calls[c].pc = "done"
        /\ calls[c].opp.type = ArbMispricing
        /\ Len(calls[c].trades) = 2
        /\ tradeHeap[calls[c].trades[1]].type = BUY
        /\ tradeHeap[calls[c].trades[2]].type = SELL
        /\ Status(calls[c].trades[1]) = EXECUTED
        /\ Status(calls[c].trades[2]) = EXECUTED
        /\ Submissions(calls[c].trades[2]) = 1

(* C24: in live mode, executeTrade on an opportunity whose expiresAt is    *)
(* already past returns an empty list, creates no trade and leaves         *)
(* pendingTrades, completedTrades and retryCount unchanged.                *)
C24_ExpiredRejected ==
    [][\A c \in Callers :
          (/\ tradingEnabled
           /\ calls[c].pc # "await"
           /\ calls'[c] # calls[c]
           /\ now > calls'[c].opp.expiresAt) =>
              /\ calls'[c].pc = "done"
              /\ calls'[c].ret = <<>>
              /\ UNCHANGED <<tradeHeap, pendingTrades, completedTrades, retryCount>>]_vars

(* a live call made after the opportunity's expiry, while pendingTrades    *)
(* had room, has returned the empty list next to a leg still in flight     *)
C24_Witness ==
    \E c \in Callers :
        /\ tradingEnabled
        /\ calls[c].pc = "done"
        /\ calls[c].startedAt > calls[c].opp.expiresAt
        /\ calls[c].ret = <<>>
        /\ calls[c].trades = <<>>
        /\ Len(pendingTrades) = 1

(* C26: whenever a leg reaches status Executed in live mode, the ledger's  *)
(* position for the leg's market and outcome is created or updated in the  *)
(* same step.                                                              *)
C26_ExecutedLegUpdatesPosition ==
    [][\A id \in TradeIds :
          (/\ tradingEnabled
           /\ tradeHeap[id].status # EXECUTED
           /\ tradeHeap'[id].status = EXECUTED) =>
              LET key == KeyOf(tradeHeap[id].marketId, tradeHeap[id].outcome)
              IN  /\ key \in DOMAIN positions'
                  /\ key \in DOMAIN positions => positions'[key] # positions[key]]_vars

(* C27: no trade id appears more than once in completedTrades, and no      *)
(* trade id is in pendingTrades and in completedTrades at the same time.   *)
C27_FiledOnce ==
    /\ \A i, j \in 1..Len(completedTrades) :
           completedTrades[i] = completedTrades[j] => i = j
    /\ \A id \in TradeIds : ~(InPending(id) /\ InCompleted(id))

(* C28: every trade in pendingTrades has status Pending, and every trade   *)
(* in completedTrades has status Executed, Failed or Cancelled.            *)
C28_StatusMatchesSet ==
    \A id \in TradeIds :
        /\ InPending(id) => Status(id) = PENDING
        /\ InCompleted(id) => Status(id) \in Terminal

(* C29: for a Mispricing opportunity in live mode, the Sell leg is         *)
(* submitted only if the Buy leg ended with status Executed.               *)
C29_NoSellAfterFailedBuy ==
    [][\A c \in Callers :
          (tradingEnabled /\ calls'[c].pc # "idle"
             /\ calls'[c].opp.type = ArbMispricing) =>
              \A i, j \in 1..Len(calls'[c].trades) :
                  LET s == calls'[c].trades[i]
                      b == calls'[c].trades[j]
                  IN  (/\ tradeHeap'[s].type = SELL
                       /\ tradeHeap'[b].type = BUY
                       /\ SubmissionsNext(s) > Submissions(s))
                          => tradeHeap'[b].status = EXECUTED]_vars

----------------------------------------------------------------------------
(* Properties of the assembled application *)

(* C25: every opportunity the detector returns for a PRICE_UPDATED event   *)
(* is passed to the ledger's canExecuteTrade, and every admitted           *)
(* opportunity is passed to executeTrade.  Read off the latest calls: once *)
(* the detector has returned opportunities, canExecuteTrade has been       *)
(* called with one of them; once it has admitted one, executeTrade has     *)
(* been called.                                                            *)
C25_DetectedAreExecuted ==
    /\ (detectCalls > 0 /\ lastResult # <<>>) =>
           /\ lastCheck.called
           /\ \E i \in 1..Len(lastResult) :
                  lastCheck.profitPercentage = lastResult[i].profitPercentage
    /\ (lastCheck.called /\ lastCheck.result) =>
           \E c \in Callers : calls[c].pc # "idle"

----------------------------------------------------------------------------
(* Properties of the RiskManager under approved fills, and of its          *)
(* position arithmetic                                                     *)

(* C31: when every updatePosition call is preceded by a canExecuteTrade    *)
(* approval of its amount quantity * price, the total exposure never       *)
(* exceeds maxTotalExposure, also when several approvals are obtained      *)
(* before any of their fills is recorded.                                  *)
C31_ExposureWithinLimit == RLe(totalExposure, maxTotalExposure)

RECURSIVE CostOf(_)
CostOf(fills) ==
    IF fills = <<>> THEN Zero
    ELSE RAdd(CostOf(SubSeq(fills, 1, Len(fills) - 1)),
              RMul(fills[Len(fills)].quantity, fills[Len(fills)].price))

RECURSIVE QuantityOf(_)
QuantityOf(fills) ==
    IF fills = <<>> THEN Zero
    ELSE RAdd(QuantityOf(SubSeq(fills, 1, Len(fills) - 1)), fills[Len(fills)].quantity)

AllPositive(fills) == \A i \in 1..Len(fills) : RLt(Zero, fills[i].quantity)

RECURSIVE CostOfAll(_, _)
CostOfAll(log, keys) ==
    IF keys = {} THEN Zero
    ELSE LET k == CHOOSE x \in keys : TRUE
         IN  RAdd(CostOfAll(log, keys \ {k}), CostOf(log[k]))

(* C40: a position whose fills all had positive quantities holds the sum   *)
(* of their quantities, and its quantity * averagePrice is the sum of      *)
(* quantity * price over its own fills, whatever was recorded for other    *)
(* positions; when all fills were positive the total exposure is the sum   *)
(* of quantity * price over all fills.  Numbers are exact: the rounding of *)
(* doubles is not represented.                                             *)
C40_PositionIsSumOfFills ==
    /\ DOMAIN positions = DOMAIN fillLog
    /\ \A key \in DOMAIN positions :
           AllPositive(fillLog[key]) =>
               /\ positions[key].quantity = QuantityOf(fillLog[key])
               /\ RMul(positions[key].quantity, positions[key].averagePrice)
                      = CostOf(fillLog[key])
    /\ (\A key \in DOMAIN fillLog : AllPositive(fillLog[key])) =>
           totalExposure = CostOfAll(fillLog, DOMAIN fillLog)

(* a position built from two positive fills at different prices, next to   *)
(* another position                                                        *)
C40_Witness ==
    \E key \in DOMAIN fillLog :
        /\ Len(fillLog[key]) = 2
        /\ AllPositive(fillLog[key])
        /\ fillLog[key][1].price # fillLog[key][2].price
        /\ Cardinality(DOMAIN positions) = 2

----------------------------------------------------------------------------
(* Properties of the TradeExecutor: expiry during execution, profit *)

(* C32: in live mode no leg of an opportunity is submitted after the       *)
(* opportunity's expiresAt, the second and later legs included.            *)
C32_NoSubmissionAfterExpiry ==
    [][\A c \in Callers :
          (tradingEnabled /\ calls'[c].pc # "idle") =>
              \A i \in 1..Len(calls'[c].trades) :
                  SubmissionsNext(calls'[c].trades[i]) > Submissions(calls'[c].trades[i])
                      => now <= calls'[c].opp.expiresAt]_vars

(* completedTrades.filter(t => t.status === EXECUTED && t.profit)          *)
(*                .reduce((sum, t) => sum + (t.profit || 0), 0)            *)
RECURSIVE SumProfit(_)
SumProfit(ids) ==
    IF ids = <<>> THEN Zero
    ELSE LET t    == tradeHeap[ids[Len(ids)]]
             rest == SumProfit(SubSeq(ids, 1, Len(ids) - 1))
         IN  IF t.status = EXECUTED /\ t.profit # <<>> /\ t.profit[1] # Zero
                  /\ ~IsNaN(t.profit[1])
             THEN RAdd(rest, t.profit[1])
             ELSE rest

getTotalProfit == SumProfit(completedTrades)

(* C38: getTotalProfit() returns 0 in every reachable state of the         *)
(* executor, in dry-run and in live mode.                                  *)
C38_TotalProfitZero == getTotalProfit = Zero

(* live mode: an executed leg is in completedTrades *)
C38_Witness ==
    /\ tradingEnabled
    /\ \E id \in TradeIds : InCompleted(id) /\ Status(id) = EXECUTED

----------------------------------------------------------------------------
(* Properties of the tracked markets' volatility, in the monitor *)

VarianceOf(m) == calculateVariance(states[m].priceHistory)

(* C34: for a tracked market with at least two snapshots, volatility       *)
(* squared is the sum of squared deviations of the n lastPrice values of   *)
(* the retained history from their mean, divided by n - 1.  Stated for     *)
(* n >= 2 values.                                                          *)
C34_SampleDeviation ==
    \A m \in DOMAIN states :
        LET allPrices == AllLastPrices(states[m].priceHistory)
            n         == Len(allPrices)
            mean      == RDiv(RSum(allPrices), Rat(n, 1))
        IN  (Len(states[m].priceHistory) >= 2 /\ n >= 2) =>
                VarianceOf(m) = RDiv(RSum(SquaredDeviations(allPrices, mean)),
                                     Rat(n - 1, 1))

(* C35: each tracked market's volatility is a number >= 0, neither NaN nor *)
(* infinite, and it is 0 after the market's first observation.             *)
C35_VolatilityDefined ==
    \A m \in DOMAIN states :
        /\ IsFinite(VarianceOf(m))
        /\ RLe(Zero, VarianceOf(m))
        /\ states[m].updateCount = 1 => VarianceOf(m) = Zero

----------------------------------------------------------------------------
(* Properties of the opportunities' numbers *)

(* C33: every opportunity returned by detectOpportunities has              *)
(* requiredCapital > 0 and a finite profitPercentage, quotes with          *)
(* askPrice 0 included.                                                    *)
C33_ReturnedAreFinite ==
    \A i \in 1..Len(lastResult) :
        /\ RLt(Zero, lastResult[i].requiredCapital)
        /\ IsFinite(lastResult[i].profitPercentage)

(* C37: every returned Temporal opportunity has confidence exactly 0.6 and *)
(* comes from quotes whose average spread is <= 0; a binary market with a  *)
(* positive average spread yields no returned Temporal opportunity.        *)
C37_TemporalNeedsNoSpread ==
    /\ \A o \in Returned(ArbTemporal) :
           /\ o.confidence = Rat(6, 10)
           /\ RLe(AvgSpread(lastQuotes), Zero)
    /\ (BinaryCall /\ RLt(Zero, AvgSpread(lastQuotes))) => Returned(ArbTemporal) = {}

(* a call on a binary market with a positive average spread whose bids sum *)
(* to 1.02 or more has returned, after a call that returned a Temporal     *)
(* opportunity                                                             *)
C37_Witness ==
    /\ detectCalls = 2
    /\ BinaryCall
    /\ RLt(Zero, AvgSpread(lastQuotes))
    /\ RLe(Rat(102, 100), BidSum)
    /\ \E r \in recentOpportunities : r.type = ArbTemporal

----------------------------------------------------------------------------
(* Properties of the MarketStateTracker's states *)

(* C39: after any sequence of updateMarket and removeMarket calls, every   *)
(* tracked market's priceHistory is non-empty, ends with the market's      *)
(* latest quote set, and has length min(updateCount, 100), where           *)
(* updateCount counts the updates since the state was created: it is 1     *)
(* when a market that was not tracked is observed.                         *)
C39_HistoryMatchesCount ==
    [][\A m \in DOMAIN states' :
          LET state == states'[m]
          IN  /\ state.priceHistory # <<>>
              /\ state.priceHistory[Len(state.priceHistory)] = state.prices
              /\ Len(state.priceHistory)
                     = IF state.updateCount < 100 THEN state.updateCount ELSE 100
              /\ state.updateCount = Len(arrivals'[m])
              /\ m \notin DOMAIN states => state.updateCount = 1]_vars

(* a market updated beyond the capacity of its history was removed and has *)
(* been observed again                                                     *)
C39_Witness ==
    /\ updateCalls >= 102
    /\ "m1" \in DOMAIN states
    /\ states["m1"].updateCount = 1

====
